---- MODULE Spec2Model ----
(***************************************************************************)
(* IndexedBucket (packages/storage/src/indexed_bucket.rs): a bucket with   *)
(* one secondary index, kept in a flat byte-keyed store.  Bytes are        *)
(* integers 0..255, byte strings are sequences, the store is a set of      *)
(* <<key, value>> pairs with at most one pair per key.                     *)
(***************************************************************************)
EXTENDS Integers, Sequences, FiniteSets, TLC

\* store: the backing storage.  bucket: the namespace of the IndexedBucket
\* view constructed over it.  prev, call, ret, steps: the storage before the
\* call last made, the call, its result, and the storage after each of its
\* backing-store writes.  ndirect, misused, shadow record the run so far: the
\* direct replace calls made, how any of them broke the contract on old_data
\* ("wrong": the old_data was not the stored value's; "stale": that, and the
\* call put a new value under another index key than the stored value's), and
\* the <<namespace, pk, value>> last written through each namespace's view.  deps: see the end of the module.
VARIABLES store, bucket, prev, call, ret, steps, ndirect, misused, shadow, deps

vars == <<store, bucket, prev, call, ret, steps, ndirect, misused, shadow, deps>>

\* ------------------------------------------------------------------ bounds

\* Primary keys are the one-byte strings <<1>> .. <<MaxPk>>.
MaxPk == 2

\* Direct calls of replace (the public low-level primitive) per run.
MaxDirect == 1

\* ------------------------------------------------------------ byte strings

\* u8::MAX, the largest value of one byte of a Vec<u8>.
MaxByte == 255

RECURSIVE BytesLess(_, _)
\* a < b in the byte-lexicographic order of Vec<u8> / &[u8].
BytesLess(a, b) ==
  IF b = <<>> THEN FALSE
  ELSE IF a = <<>> THEN TRUE
  ELSE IF a[1] # b[1] THEN a[1] < b[1]
  ELSE BytesLess(Tail(a), Tail(b))

BytesLeq(a, b) == a = b \/ BytesLess(a, b)

HasPrefix(k, p) == Len(k) >= Len(p) /\ SubSeq(k, 1, Len(p)) = p

\* Option<X> is a set with no element (None) or one element (Some(x)).
None == {}
Some(x) == {x}
Unwrap(o) == CHOOSE x \in o : TRUE

\* ---------------------------------------------------------- the value type

\* The stored type T of the scenarios: a category and a name.
Categories == { <<>>, <<97>>, <<97, 255>> }
Names == { <<1>>, <<2>> }
Values == [category : Categories, name : Names]

\* The indexer given to IndexedBucket::new: the category field.
indexer(v) == v.category

\* to_vec: serialize a value as len(category) category len(name) name.
to_vec(v) == <<Len(v.category)>> \o v.category \o <<Len(v.name)>> \o v.name

\* from_slice: parse the bytes to_vec writes; err is set on malformed bytes.
from_slice(b) ==
  IF Len(b) = 0 \/ Len(b) < b[1] + 2
  THEN [err |-> "ParseErr", val |-> None]
  ELSE LET n == b[1]
           m == b[n + 2]
       IN IF Len(b) # n + m + 2
          THEN [err |-> "ParseErr", val |-> None]
          ELSE [err |-> "",
                val |-> Some([category |-> SubSeq(b, 2, n + 1),
                              name |-> SubSeq(b, n + 3, n + m + 2)])]

\* may_deserialize: None for an absent entry, else the parsed value.
may_deserialize(value) ==
  IF value = None THEN [err |-> "", val |-> None] ELSE from_slice(Unwrap(value))

\* must_deserialize: NotFound for an absent entry, else the parsed value.
must_deserialize(value) ==
  IF value = None THEN [err |-> "NotFound", val |-> None]
  ELSE from_slice(Unwrap(value))

\* ------------------------------------------------------- the backing store

storage_keys(s) == { p[1] : p \in s }

\* Storage::get
storage_get(s, k) == { p[2] : p \in { q \in s : q[1] = k } }

\* Storage::set
storage_set(s, k, v) == { p \in s : p[1] # k } \cup { <<k, v>> }

\* Storage::remove
storage_remove(s, k) == { p \in s : p[1] # k }

RECURSIVE SortAsc(_)
\* The byte strings of a finite set in ascending byte order.
SortAsc(S) ==
  IF S = {} THEN <<>>
  ELSE LET m == CHOOSE x \in S : \A y \in S : BytesLeq(x, y)
       IN <<m>> \o SortAsc(S \ {m})

Reverse(q) == [i \in 1..Len(q) |-> q[Len(q) + 1 - i]]

\* Storage::range: the pairs with start <= key < end (an absent bound is
\* open), in key order; empty when start > end.
storage_range(s, start, end, order) ==
  LET inside == { k \in storage_keys(s) :
                    /\ (start = None \/ BytesLeq(Unwrap(start), k))
                    /\ (end = None \/ BytesLess(k, Unwrap(end))) }
      asc == SortAsc(inside)
      keys == IF order = "Ascending" THEN asc ELSE Reverse(asc)
  IN [i \in 1..Len(keys) |-> <<keys[i], Unwrap(storage_get(s, keys[i]))>>]

\* ------------------------------------------------------------ key encoding

\* to_length_prefixed: a two-byte big-endian length, then the bytes.
to_length_prefixed(x) == <<Len(x) \div 256, Len(x) % 256>> \o x

RECURSIVE to_length_prefixed_nested(_)
to_length_prefixed_nested(parts) ==
  IF parts = <<>> THEN <<>>
  ELSE to_length_prefixed(Head(parts)) \o to_length_prefixed_nested(Tail(parts))

\* The namespace the bucket is constructed with, and the two sub-space tags.
namespace == bucket
TagPk == <<112, 107>>
TagIdx == <<105, 100, 120>>

\* prefix_pk as the bare concatenation of namespace and tag, without framing.
prefix_pk_raw == namespace \o TagPk

\* IndexedBucket::new
prefix_pk == to_length_prefixed_nested(<<namespace, TagPk>>)
prefix_idx == to_length_prefixed_nested(<<namespace, TagIdx>>)

get_with_prefix(s, ns, key) == storage_get(s, ns \o key)
set_with_prefix(s, ns, key, value) == storage_set(s, ns \o key, value)
remove_with_prefix(s, ns, key) == storage_remove(s, ns \o key)

trim(ns, k) == SubSeq(k, Len(ns) + 1, Len(k))

RECURSIVE namespace_upper_bound(_)
\* The smallest byte string above every string that starts with p: strip
\* trailing maximum bytes and increment the byte before them; None when p
\* is all maximum bytes.
namespace_upper_bound(p) ==
  IF p = <<>> THEN None
  ELSE IF p[Len(p)] = MaxByte THEN namespace_upper_bound(SubSeq(p, 1, Len(p) - 1))
  ELSE Some([p EXCEPT ![Len(p)] = @ + 1])

\* range_with_prefix: scan the sub-space ns between bounds given relative
\* to it (an absent bound is the edge of the sub-space); the keys come back
\* with ns removed.
range_with_prefix(s, ns, start, end, order) ==
  LET lo == IF start = None THEN Some(ns) ELSE Some(ns \o Unwrap(start))
      hi == IF end = None THEN namespace_upper_bound(ns)
            ELSE Some(ns \o Unwrap(end))
      base == storage_range(s, lo, hi, order)
  IN [i \in 1..Len(base) |-> <<trim(ns, base[i][1]), base[i][2]>>]

\* ------------------------------------------------------------ the bucket

index_space(idx) == prefix_idx \o to_length_prefixed(idx)

add_to_index(s, idx, key) ==
  set_with_prefix(s, index_space(idx), key, <<49>>)

\* remove_from_index with the delete left out.
remove_from_index_skip(s, idx, key) == s

remove_from_index(s, idx, key) ==
  remove_with_prefix(s, index_space(idx), key)

load(s, key) == must_deserialize(get_with_prefix(s, prefix_pk, key))

\* may_load that takes bytes that do not parse for an absent entry.
may_load_lenient(s, key) ==
  LET r == may_deserialize(get_with_prefix(s, prefix_pk, key))
  IN IF r.err # "" THEN [err |-> "", val |-> None] ELSE r

may_load(s, key) == may_deserialize(get_with_prefix(s, prefix_pk, key))

\* replace without the write of the primary entry.
replace_no_write(s, key, data, old_data) ==
  LET t1 == IF old_data # None
            THEN <<remove_from_index(s, indexer(Unwrap(old_data)), key)>>
            ELSE <<>>
      s1 == IF t1 = <<>> THEN s ELSE t1[1]
  IN IF data # None
     THEN LET s2 == add_to_index(s1, indexer(Unwrap(data)), key)
          IN [err |-> "", store |-> s2, trace |-> t1 \o <<s2>>]
     ELSE LET s2 == remove_with_prefix(s1, prefix_pk, key)
          IN [err |-> "", store |-> s2, trace |-> t1 \o <<s2>>]

\* replace without the else branch that deletes the primary entry.
replace_never_deletes(s, key, data, old_data) ==
  LET t1 == IF old_data # None
            THEN <<remove_from_index(s, indexer(Unwrap(old_data)), key)>>
            ELSE <<>>
      s1 == IF t1 = <<>> THEN s ELSE t1[1]
  IN IF data # None
     THEN LET updated == Unwrap(data)
              s2 == add_to_index(s1, indexer(updated), key)
              s3 == set_with_prefix(s2, prefix_pk, key, to_vec(updated))
          IN [err |-> "", store |-> s3, trace |-> t1 \o <<s2, s3>>]
     ELSE [err |-> "", store |-> s1, trace |-> t1]

\* replace that looks up the stored value and removes its index entry,
\* whatever old_data is.
replace_checked(s, key, data, old_data) ==
  LET stored == may_deserialize(get_with_prefix(s, prefix_pk, key)).val
      t1 == IF stored # None
            THEN <<remove_from_index(s, indexer(Unwrap(stored)), key)>>
            ELSE <<>>
      s1 == IF t1 = <<>> THEN s ELSE t1[1]
  IN IF data # None
     THEN LET updated == Unwrap(data)
              s2 == add_to_index(s1, indexer(updated), key)
              s3 == set_with_prefix(s2, prefix_pk, key, to_vec(updated))
          IN [err |-> "", store |-> s3, trace |-> t1 \o <<s2, s3>>]
     ELSE LET s2 == remove_with_prefix(s1, prefix_pk, key)
          IN [err |-> "", store |-> s2, trace |-> t1 \o <<s2>>]

\* replace that writes the primary entry before it adds the index entry.
replace_primary_first(s, key, data, old_data) ==
  LET t1 == IF old_data # None
            THEN <<remove_from_index(s, indexer(Unwrap(old_data)), key)>>
            ELSE <<>>
      s1 == IF t1 = <<>> THEN s ELSE t1[1]
  IN IF data # None
     THEN LET updated == Unwrap(data)
              s2 == set_with_prefix(s1, prefix_pk, key, to_vec(updated))
              s3 == add_to_index(s2, indexer(updated), key)
          IN [err |-> "", store |-> s3, trace |-> t1 \o <<s2, s3>>]
     ELSE LET s2 == remove_with_prefix(s1, prefix_pk, key)
          IN [err |-> "", store |-> s2, trace |-> t1 \o <<s2>>]

\* replace that adds the new index entry before it removes the old one.
replace_add_then_remove(s, key, data, old_data) ==
  IF data # None
  THEN LET updated == Unwrap(data)
           s1 == add_to_index(s, indexer(updated), key)
           t2 == IF old_data # None
                 THEN <<remove_from_index(s1, indexer(Unwrap(old_data)), key)>>
                 ELSE <<>>
           s2 == IF t2 = <<>> THEN s1 ELSE t2[1]
           s3 == set_with_prefix(s2, prefix_pk, key, to_vec(updated))
       IN [err |-> "", store |-> s3, trace |-> <<s1>> \o t2 \o <<s3>>]
  ELSE LET t1 == IF old_data # None
                 THEN <<remove_from_index(s, indexer(Unwrap(old_data)), key)>>
                 ELSE <<>>
           s1 == IF t1 = <<>> THEN s ELSE t1[1]
           s2 == remove_with_prefix(s1, prefix_pk, key)
       IN [err |-> "", store |-> s2, trace |-> t1 \o <<s2>>]

\* replace: it always returns Ok(()); store is the storage after the call,
\* trace the storage after each backing-store write, in the order made.
replace(s, key, data, old_data) ==
  LET t1 == IF old_data # None
            THEN <<remove_from_index(s, indexer(Unwrap(old_data)), key)>>
            ELSE <<>>
      s1 == IF t1 = <<>> THEN s ELSE t1[1]
  IN IF data # None
     THEN LET updated == Unwrap(data)
              s2 == add_to_index(s1, indexer(updated), key)
              s3 == set_with_prefix(s2, prefix_pk, key, to_vec(updated))
          IN [err |-> "", store |-> s3, trace |-> t1 \o <<s2, s3>>]
     ELSE LET s2 == remove_with_prefix(s1, prefix_pk, key)
          IN [err |-> "", store |-> s2, trace |-> t1 \o <<s2>>]

save(s, key, data) ==
  LET old_data == may_load(s, key)
  IN IF old_data.err # "" THEN [err |-> old_data.err, store |-> s, trace |-> <<>>]
     ELSE replace(s, key, Some(data), old_data.val)

\* remove that does not load the old value first.
remove_blind(s, key) == replace(s, key, None, None)

remove(s, key) ==
  LET old_data == may_load(s, key)
  IN IF old_data.err # "" THEN [err |-> old_data.err, store |-> s, trace |-> <<>>]
     ELSE replace(s, key, None, old_data.val)

\* The closures passed to update: each maps Option<T> to Result<T, E>.
Actions ==
  { [kind |-> "set", v |-> Some(v)] : v \in Values }
    \cup { [kind |-> "modify", v |-> Some(v)] : v \in { w \in Values : w.name = <<1>> } }
    \cup { [kind |-> "fail", v |-> None] }

NoAction == [kind |-> "none", v |-> None]

\* action(input): "set" stores v whatever was there; "modify" moves an
\* existing value to v's category and fails on an absent one; "fail" fails.
ApplyAction(a, input) ==
  IF a.kind = "set" THEN [err |-> "", val |-> a.v]
  ELSE IF a.kind = "modify" /\ input # None
  THEN [err |-> "",
        val |-> Some([category |-> Unwrap(a.v).category, name |-> Unwrap(input).name])]
  ELSE [err |-> "ActionErr", val |-> None]

\* update that clears the old index entry before it runs the action.
update_eager(s, key, action) ==
  LET input == may_load(s, key)
  IN IF input.err # ""
     THEN [err |-> input.err, store |-> s, val |-> None, trace |-> <<>>, invoked |-> FALSE]
     ELSE LET old_idx == { indexer(v) : v \in input.val }
              t1 == IF old_idx # None
                    THEN <<remove_from_index(s, Unwrap(old_idx), key)>>
                    ELSE <<>>
              s1 == IF t1 = <<>> THEN s ELSE t1[1]
              output == ApplyAction(action, input.val)
          IN IF output.err # ""
             THEN [err |-> output.err, store |-> s1, val |-> None, trace |-> t1,
                   invoked |-> TRUE]
             ELSE LET r == replace(s1, key, output.val, None)
                  IN [err |-> "", store |-> r.store, val |-> output.val,
                      trace |-> t1 \o r.trace, invoked |-> TRUE]

\* update that leaves the old index entry to replace, which gets no old value.
update_no_unindex(s, key, action) ==
  LET input == may_load(s, key)
  IN IF input.err # ""
     THEN [err |-> input.err, store |-> s, val |-> None, trace |-> <<>>, invoked |-> FALSE]
     ELSE LET output == ApplyAction(action, input.val)
          IN IF output.err # ""
             THEN [err |-> output.err, store |-> s, val |-> None, trace |-> <<>>,
                   invoked |-> TRUE]
             ELSE LET r == replace(s, key, output.val, None)
                  IN [err |-> "", store |-> r.store, val |-> output.val,
                      trace |-> r.trace, invoked |-> TRUE]

\* update: store, trace as for replace; val is the value returned; invoked
\* tells whether the action was called.
update(s, key, action) ==
  LET input == may_load(s, key)
  IN IF input.err # ""
     THEN [err |-> input.err, store |-> s, val |-> None, trace |-> <<>>, invoked |-> FALSE]
     ELSE LET old_idx == { indexer(v) : v \in input.val }
              output == ApplyAction(action, input.val)
          IN IF output.err # ""
             THEN [err |-> output.err, store |-> s, val |-> None, trace |-> <<>>,
                   invoked |-> TRUE]
             ELSE LET t1 == IF old_idx # None
                            THEN <<remove_from_index(s, Unwrap(old_idx), key)>>
                            ELSE <<>>
                      s1 == IF t1 = <<>> THEN s ELSE t1[1]
                      r == replace(s1, key, output.val, None)
                  IN IF r.err # ""
                     THEN [err |-> r.err, store |-> r.store, val |-> None,
                           trace |-> t1 \o r.trace, invoked |-> TRUE]
                     ELSE [err |-> "", store |-> r.store, val |-> output.val,
                           trace |-> t1 \o r.trace, invoked |-> TRUE]

\* `end[l - 1] += 1` on a u8: below the maximum byte it increments; at the
\* maximum byte it overflows, which panics in a build with overflow checks
\* and wraps to 0 in a build without them.
scan_end(start) ==
  LET l == Len(start)
  IN IF start[l] = MaxByte
     THEN { [panic |-> TRUE, end |-> start],
            [panic |-> FALSE, end |-> [start EXCEPT ![l] = 0]] }
     ELSE { [panic |-> FALSE, end |-> [start EXCEPT ![l] = @ + 1]] }

\* pks_by_index: the outcomes the call can have (one unless the increment
\* overflows): a panic, or the keys of the scan in ascending order.
pks_by_index(s, idx) ==
  LET start == index_space(idx)
  IN { IF e.panic THEN [status |-> "Panic", pks |-> <<>>]
       ELSE LET mapped == range_with_prefix(s, prefix_idx, Some(start), Some(e.end),
                                            "Ascending")
            IN [status |-> "Ok", pks |-> [i \in 1..Len(mapped) |-> mapped[i][1]]]
       : e \in scan_end(start) }

\* deserialize_kv: one item of range, the key with the parsed value or the
\* parse error.
deserialize_kv(kv) ==
  [pk |-> kv[1], err |-> from_slice(kv[2]).err, val |-> from_slice(kv[2]).val]

\* range that scans ascending whatever order is asked for.
range_ignores_order(s, start, end, order) ==
  LET mapped == range_with_prefix(s, prefix_pk, start, end, "Ascending")
  IN [i \in 1..Len(mapped) |-> deserialize_kv(mapped[i])]

\* range: the items of the primary sub-space between the bounds, in pk order.
range(s, start, end, order) ==
  LET mapped == range_with_prefix(s, prefix_pk, start, end, order)
  IN [i \in 1..Len(mapped) |-> deserialize_kv(mapped[i])]

\* items_by_index: each pk of pks_by_index with the result of load(pk).
items_by_index(s, idx) ==
  { [status |-> o.status,
     items |-> [i \in 1..Len(o.pks) |->
                  [pk |-> o.pks[i], err |-> load(s, o.pks[i]).err,
                   val |-> load(s, o.pks[i]).val]]]
    : o \in pks_by_index(s, idx) }

\* ------------------------------------------------------ the state machine

PKs == { <<i>> : i \in 1..MaxPk }

Call(op, key, data, old, action, idx) ==
  [op |-> op, key |-> key, data |-> data, old |-> old, action |-> action, idx |-> idx,
   start |-> None, end |-> None, order |-> ""]

\* The bounds range is called with: none, or the pk <<2>>.
RangeBounds == { None, Some(<<2>>) }

Orders == { "Ascending", "Descending" }

Ret(err, val, pks) ==
  [status |-> IF err = "" THEN "Ok" ELSE "Err", err |-> err, val |-> val, pks |-> pks,
   items |-> <<>>, invoked |-> FALSE]

\* The namespace of the bucket every run starts with.
Namespace0 == <<110>>

\* The logical content after a write through the current view: pk holds
\* data (None: nothing).
Written(sh, pk, data) ==
  { x \in sh : ~(x[1] = bucket /\ x[2] = pk) } \cup { <<bucket, pk, v>> : v \in data }

\* OwnedDeps before any borrow (see the end of the module): no handle, its
\* storage and a storage apart from it both empty, nothing written.
NoDeps == [stack |-> <<>>, heap |-> <<{}, {}>>, wrote |-> {}, last |-> "new"]

Init ==
  /\ store = {}
  /\ bucket = Namespace0
  /\ prev = {}
  /\ call = Call("new", <<>>, None, None, NoAction, <<>>)
  /\ ret = Ret("", None, <<>>)
  /\ steps = <<>>
  /\ ndirect = 0
  /\ misused = {}
  /\ shadow = {}
  /\ deps = NoDeps

Save(pk, v) ==
  LET r == save(store, pk, v)
  IN /\ store' = r.store
     /\ prev' = store
     /\ call' = Call("save", pk, Some(v), None, NoAction, <<>>)
     /\ ret' = Ret(r.err, None, <<>>)
     /\ steps' = r.trace
     /\ shadow' = IF r.err = "" THEN Written(shadow, pk, Some(v)) ELSE shadow
     /\ UNCHANGED <<bucket, ndirect, misused, deps>>

Remove(pk) ==
  LET r == remove(store, pk)
  IN /\ store' = r.store
     /\ prev' = store
     /\ call' = Call("remove", pk, None, None, NoAction, <<>>)
     /\ ret' = Ret(r.err, None, <<>>)
     /\ steps' = r.trace
     /\ shadow' = IF r.err = "" THEN Written(shadow, pk, None) ELSE shadow
     /\ UNCHANGED <<bucket, ndirect, misused, deps>>

Update(pk, a) ==
  LET r == update(store, pk, a)
  IN /\ store' = r.store
     /\ prev' = store
     /\ call' = Call("update", pk, None, None, a, <<>>)
     /\ ret' = [Ret(r.err, r.val, <<>>) EXCEPT !.invoked = r.invoked]
     /\ steps' = r.trace
     /\ shadow' = IF r.err = "" THEN Written(shadow, pk, r.val) ELSE shadow
     /\ UNCHANGED <<bucket, ndirect, misused, deps>>

PksByIndex(idx) ==
  \E o \in pks_by_index(store, idx) :
    /\ store' = store
    /\ prev' = store
    /\ call' = Call("pks_by_index", <<>>, None, None, NoAction, idx)
    /\ ret' = [Ret("", None, o.pks) EXCEPT !.status = o.status]
    /\ steps' = <<>>
    /\ UNCHANGED <<bucket, ndirect, misused, shadow, deps>>

ItemsByIndex(idx) ==
  \E o \in items_by_index(store, idx) :
    /\ store' = store
    /\ prev' = store
    /\ call' = Call("items_by_index", <<>>, None, None, NoAction, idx)
    /\ ret' = [Ret("", None, <<>>) EXCEPT !.status = o.status, !.items = o.items]
    /\ steps' = <<>>
    /\ UNCHANGED <<bucket, ndirect, misused, shadow, deps>>

Range(start, end, order) ==
  /\ store' = store
  /\ prev' = store
  /\ call' = [Call("range", <<>>, None, None, NoAction, <<>>)
               EXCEPT !.start = start, !.end = end, !.order = order]
  /\ ret' = [Ret("", None, <<>>) EXCEPT !.items = range(store, start, end, order)]
  /\ steps' = <<>>
  /\ UNCHANGED <<bucket, ndirect, misused, shadow, deps>>

\* A replace call whose old_data does not name what pk holds: the index key
\* of old_data is not the stored value's, or one of the two is absent alone.
WrongOld(s, pk, old) ==
  { indexer(o) : o \in old } # { indexer(v) : v \in may_load(s, pk).val }

\* A direct replace call that puts a new value under another index key than
\* the stored value's, with an old_data that does not name the stored
\* value's index key.
StaleOld(s, pk, data, old) ==
  /\ data # None
  /\ may_load(s, pk).val # None
  /\ indexer(Unwrap(data)) # indexer(Unwrap(may_load(s, pk).val))
  /\ \A o \in old : indexer(o) # indexer(Unwrap(may_load(s, pk).val))

Replace(pk, data, old) ==
  /\ ndirect < MaxDirect
  /\ LET r == replace(store, pk, data, old)
     IN /\ store' = r.store
        /\ prev' = store
        /\ call' = Call("replace", pk, data, old, NoAction, <<>>)
        /\ ret' = Ret(r.err, None, <<>>)
        /\ steps' = r.trace
        /\ shadow' = IF r.err = "" THEN Written(shadow, pk, data) ELSE shadow
  /\ ndirect' = ndirect + 1
  /\ misused' = misused \cup (IF WrongOld(store, pk, old) THEN {"wrong"} ELSE {})
                        \cup (IF StaleOld(store, pk, data, old) THEN {"stale"} ELSE {})
  /\ UNCHANGED <<bucket, deps>>

Next ==
  \/ \E pk \in PKs, v \in Values : Save(pk, v)
  \/ \E pk \in PKs : Remove(pk)
  \/ \E pk \in PKs, a \in Actions : Update(pk, a)
  \/ \E idx \in Categories : PksByIndex(idx)
  \/ \E idx \in Categories : ItemsByIndex(idx)
  \/ \E start \in RangeBounds, end \in RangeBounds, order \in Orders : Range(start, end, order)

\* Calls of save, remove, update, pks_by_index, items_by_index and range on an
\* initially empty bucket.
Spec == Init /\ [][Next]_vars

\* The values direct callers of replace put: one for each of two categories.
DirectValues == { v \in Values : v.name = <<1>> /\ Len(v.category) < 2 }

OptDirectValues == { None } \cup { Some(v) : v \in DirectValues }

\* The old_data direct callers of replace pass: none, or one value per
\* category (replace reads old_data through the indexer alone).
OptOldValues == { None } \cup { Some(v) : v \in { w \in Values : w.name = <<1>> } }

\* The closures passed to update next to direct calls of replace.
DirectActions == { a \in Actions : \A v \in a.v : v \in DirectValues }

NextDirect ==
  \/ \E pk \in PKs, v \in DirectValues : Save(pk, v)
  \/ \E pk \in PKs : Remove(pk)
  \/ \E pk \in PKs, a \in DirectActions : Update(pk, a)
  \/ \E pk \in PKs, data \in OptDirectValues, old \in OptOldValues :
       Replace(pk, data, old)

\* Calls of save, remove and update with direct calls of replace among them;
\* nothing checks the old_data a direct caller passes.
SpecDirect == Init /\ [][NextDirect]_vars

\* The namespaces of sibling buckets over one storage: one is a byte-prefix
\* of the other, and the longer one ends in the primary tag.
Namespaces == { Namespace0, Namespace0 \o TagPk }

\* The pks of the sibling buckets; the second starts with the primary tag.
SiblingPKs == { <<1>>, TagPk \o <<1>> }

\* IndexedBucket::new(storage, ns, indexer): another view over the same
\* storage; construction writes nothing.
New(ns) ==
  /\ bucket' = ns
  /\ store' = store
  /\ prev' = store
  /\ call' = Call("new", <<>>, None, None, NoAction, <<>>)
  /\ ret' = Ret("", None, <<>>)
  /\ steps' = <<>>
  /\ UNCHANGED <<ndirect, misused, shadow, deps>>

NextSiblings ==
  \/ \E ns \in Namespaces : New(ns)
  \/ \E pk \in SiblingPKs, v \in DirectValues : Save(pk, v)
  \/ \E pk \in SiblingPKs : Remove(pk)

\* Calls of save and remove through buckets of different namespaces over one
\* storage.
SpecSiblings == Init /\ [][NextSiblings]_vars

\* A pk made of the framed index tag, the framed index key <<97>> and the
\* byte 1, and the pk made of the framed namespace and that pk.
CraftPk == to_length_prefixed(TagIdx) \o to_length_prefixed(<<97>>) \o <<1>>
CraftPKs == { CraftPk, to_length_prefixed(Namespace0) \o CraftPk }

\* Values whose category is the namespace's bytes or <<97>>.
CraftValues == [category : { Namespace0, <<97>> }, name : Names]

\* The closures that set one of these values.
CraftActions == { [kind |-> "set", v |-> Some(v)] : v \in CraftValues }

NextCraft ==
  \/ \E pk \in CraftPKs, v \in CraftValues : Save(pk, v)
  \/ \E pk \in CraftPKs : Remove(pk)
  \/ \E pk \in CraftPKs, a \in CraftActions : Update(pk, a)
  \/ \E idx \in { <<>>, <<97>>, Namespace0 } : PksByIndex(idx)

\* Calls of save, remove, update and pks_by_index with pks and categories
\* whose bytes are those of the bucket's own key framing.
SpecCraft == Init /\ [][NextCraft]_vars

\* Bytes that do not parse as a value: none, and a category cut short.
Malformed == { <<>>, <<1, 97>> }

\* Storage::set of bytes at the primary key of pk by another user of the
\* same storage, not through the bucket.
RawSet(pk, bytes) ==
  /\ store' = set_with_prefix(store, prefix_pk, pk, bytes)
  /\ prev' = store
  /\ call' = Call("raw_set", pk, None, None, NoAction, <<>>)
  /\ ret' = Ret("", None, <<>>)
  /\ steps' = <<store'>>
  /\ UNCHANGED <<bucket, ndirect, misused, shadow, deps>>

NextRaw ==
  \/ \E pk \in PKs, v \in DirectValues : Save(pk, v)
  \/ \E pk \in PKs : Remove(pk)
  \/ \E pk \in PKs, a \in DirectActions : Update(pk, a)
  \/ \E pk \in PKs, bytes \in Malformed : RawSet(pk, bytes)

\* Calls of save, remove and update on a bucket in whose primary sub-space
\* malformed bytes get written.
SpecRaw == Init /\ [][NextRaw]_vars

\* ------------------------------------------------- the store, decoded

\* The pks that have a primary entry.
PrimaryPks(s) ==
  { trim(prefix_pk, k) : k \in { x \in storage_keys(s) : HasPrefix(x, prefix_pk) } }

\* The storage keys of the index sub-space.
IndexKeys(s) == { k \in storage_keys(s) : HasPrefix(k, prefix_idx) }

\* The <<idx, pk>> a marker key prefix_idx ++ frame(idx) ++ pk stands for.
DecodeMarker(k) ==
  LET r == trim(prefix_idx, k)
      n == r[1] * 256 + r[2]
  IN <<SubSeq(r, 3, n + 2), SubSeq(r, n + 3, Len(r))>>

Markers(s) == { DecodeMarker(k) : k \in IndexKeys(s) }

\* The marker keys that belong to pk.
MarkerKeysOf(s, pk) == { k \in IndexKeys(s) : DecodeMarker(k)[2] = pk }

\* The value pk holds, as an Option.
Held(s, pk) == may_load(s, pk).val

\* The pks whose stored value has index key idx, ascending.
PksUnder(s, idx) ==
  SortAsc({ pk \in PrimaryPks(s) : Held(s, pk) # None /\ indexer(Unwrap(Held(s, pk))) = idx })

Occurrences(q, x) == Cardinality({ i \in 1..Len(q) : q[i] = x })

\* ------------------------------------------------------------- claims

\* C1: after every completed save, remove or update on an initially empty
\* bucket, every pk that holds a value v has exactly one index marker, the
\* one at (indexer(v), pk), and none under any other index value.
C1_OneMarkerPerStoredPk ==
  \A pk \in PrimaryPks(store) :
    LET r == may_load(store, pk)
    IN /\ r.err = ""
       /\ r.val # None
       /\ MarkerKeysOf(store, pk) = { index_space(indexer(Unwrap(r.val))) \o pk }
       /\ Cardinality({ p \in store : p[1] \in MarkerKeysOf(store, pk) }) = 1

\* C1's case: a save or update that moved a pk from one index value to another.
C1_Witness ==
  /\ call.op \in {"save", "update"}
  /\ ret.status = "Ok"
  /\ Held(prev, call.key) # None
  /\ Held(store, call.key) # None
  /\ indexer(Unwrap(Held(prev, call.key))) # indexer(Unwrap(Held(store, call.key)))

\* C2: after save(pk, v) completes, pks_by_index(indexer(v)) returns a
\* sequence that contains the bare pk exactly once.
C2_SavedPkListedOnce ==
  (call.op = "save" /\ ret.status = "Ok") =>
    \A o \in pks_by_index(store, indexer(Unwrap(call.data))) :
      o.status = "Ok" /\ Occurrences(o.pks, call.key) = 1

\* C3: after save(pk, v1) followed by save(pk, v2) with different index keys,
\* pks_by_index(indexer(v1)) no longer contains pk and
\* pks_by_index(indexer(v2)) contains pk.
C3_ReindexMovesPk ==
  [][(/\ call.op = "save"
      /\ call'.op = "save"
      /\ call'.key = call.key
      /\ indexer(Unwrap(call.data)) # indexer(Unwrap(call'.data)))
     => (/\ \A o \in pks_by_index(store', indexer(Unwrap(call.data))) :
              Occurrences(o.pks, call.key) = 0
         /\ \A o \in pks_by_index(store', indexer(Unwrap(call'.data))) :
              o.status = "Ok" /\ Occurrences(o.pks, call.key) >= 1)]_vars

\* C4: a successful update(pk, action) leaves the store exactly as
\* old = may_load(pk); new = action(old); save(pk, new) does, returns new,
\* and leaves no index marker for pk other than (indexer(new), pk).
C4_UpdateIsLoadActionSave ==
  (call.op = "update" /\ ret.status = "Ok") =>
    LET old == may_load(prev, call.key)
        new == ApplyAction(call.action, old.val)
    IN /\ new.err = ""
       /\ ret.val = new.val
       /\ store = save(prev, call.key, Unwrap(new.val)).store
       /\ MarkerKeysOf(store, call.key)
            = { index_space(indexer(Unwrap(new.val))) \o call.key }

\* C4's case: a successful update of a pk that held a value under another
\* index key.
C4_Witness ==
  /\ call.op = "update"
  /\ ret.status = "Ok"
  /\ Held(prev, call.key) # None
  /\ indexer(Unwrap(Held(prev, call.key))) # indexer(Unwrap(ret.val))

\* C5: for an idx whose encoded prefix ends in the maximum byte,
\* pks_by_index(idx) completes, its exclusive upper bound is the byte-string
\* successor of the prefix, and it returns every pk stored under idx.
C5_ScanBoundIsSuccessor ==
  (call.op = "pks_by_index"
     /\ index_space(call.idx)[Len(index_space(call.idx))] = MaxByte) =>
    /\ ret.status = "Ok"
    /\ \A e \in scan_end(index_space(call.idx)) :
         ~e.panic /\ Some(e.end) = namespace_upper_bound(index_space(call.idx))
    /\ ret.pks = PksUnder(store, call.idx)

\* C6 as stated: replace(pk, None, None) leaves the primary entry at pk and
\* all index markers unchanged in every store state, also when pk holds a value.
C6_ReplaceNoneNoneNoop ==
  (call.op = "replace" /\ call.data = None /\ call.old = None) => store = prev

\* C6 amended: replace(pk, None, None) leaves every index marker and every
\* other primary entry unchanged and leaves pk without a primary entry; it
\* changes nothing exactly when pk held no value.
C6_ReplaceNoneNoneDeletesPrimaryOnly ==
  (call.op = "replace" /\ call.data = None /\ call.old = None) =>
    /\ ret.status = "Ok"
    /\ store = { p \in prev : p[1] # prefix_pk \o call.key }
    /\ { p \in store : p[1] \in IndexKeys(store) }
         = { p \in prev : p[1] \in IndexKeys(prev) }
    /\ (store = prev) <=> (call.key \notin PrimaryPks(prev))

\* C6's case: replace(pk, None, None) on a pk that holds a value.
C6_Witness ==
  /\ call.op = "replace"
  /\ call.data = None
  /\ call.old = None
  /\ call.key \in PrimaryPks(prev)

\* C7: when the action given to update fails, update returns that error and
\* the primary entry at pk and every index marker are as before the call.
C7_FailedActionNoSideEffects ==
  (call.op = "update"
     /\ ApplyAction(call.action, may_load(prev, call.key).val).err # "") =>
    /\ ret.status = "Err"
    /\ ret.err = ApplyAction(call.action, may_load(prev, call.key).val).err
    /\ store = prev

\* C7's case: an update whose action failed on a pk that holds a value.
C7_Witness ==
  /\ call.op = "update"
  /\ ret.status = "Err"
  /\ ret.err = "ActionErr"
  /\ Held(prev, call.key) # None

\* C8: after any sequence of save, remove and update calls on an empty
\* bucket, the index markers are exactly {(indexer(v), pk) : pk holds v},
\* recomputed from the primary entries; no marker is left for an empty pk.
C8_IndexRebuildableFromPrimary ==
  /\ Markers(store)
       = { <<indexer(Unwrap(Held(store, pk))), pk>> : pk \in PrimaryPks(store) }
  /\ IndexKeys(store)
       = { index_space(indexer(Unwrap(Held(store, pk)))) \o pk : pk \in PrimaryPks(store) }
  /\ \A k \in IndexKeys(store) : Held(store, DecodeMarker(k)[2]) # None

\* C8's case (scenario D): a remove of a pk that held a value, with another
\* pk still stored.
C8_Witness ==
  /\ call.op = "remove"
  /\ ret.status = "Ok"
  /\ Held(prev, call.key) # None
  /\ PrimaryPks(store) # {}

\* C9: save(pk, v) followed by may_load(pk) returns v, whatever pk held.
C9_SaveThenMayLoad ==
  (call.op = "save") =>
    /\ ret.status = "Ok"
    /\ may_load(store, call.key) = [err |-> "", val |-> call.data]

\* C9's case: a save over a different value.
C9_Witness ==
  /\ call.op = "save"
  /\ Held(prev, call.key) # None
  /\ Held(prev, call.key) # call.data
  /\ Held(store, call.key) = call.data

\* C10: after remove(pk), may_load(pk) returns empty, and a second
\* remove(pk) succeeds and leaves the whole store unchanged.
C10_RemoveIdempotent ==
  (call.op = "remove") =>
    /\ ret.status = "Ok"
    /\ may_load(store, call.key) = [err |-> "", val |-> None]
    /\ remove(store, call.key).err = ""
    /\ remove(store, call.key).store = store

\* C10's case: a remove of a pk that held a value.
C10_Witness ==
  /\ call.op = "remove"
  /\ Held(prev, call.key) # None
  /\ Held(store, call.key) = None

\* The items a scan of the pks in q is to give: each pk with the value it holds.
ItemsOf(s, q) == [i \in 1..Len(q) |-> [pk |-> q[i], err |-> "", val |-> Held(s, q[i])]]

\* C11: pks_by_index(idx) yields the bare pks stored under idx in ascending
\* byte order, whatever the order they were saved in (scenario C: [k1, k2]).
C11_AscendingPksOfIndex ==
  (call.op = "pks_by_index" /\ ret.status = "Ok") => ret.pks = PksUnder(store, call.idx)

\* C12: items_by_index(idx) returns exactly the (pk, value) pairs whose
\* stored value has index key idx, in ascending pk order, each from a
\* successful load.
C12_ItemsOfIndex ==
  (call.op = "items_by_index" /\ ret.status = "Ok") =>
    ret.items = ItemsOf(store, PksUnder(store, call.idx))

\* C13: range(None, None, Ascending) visits every pk that holds a value
\* once, in byte-lexicographic order, and nothing else (no index marker);
\* Descending visits the same pks in the reverse order.
C13_RangeVisitsStoredPks ==
  (call.op = "range" /\ call.start = None /\ call.end = None) =>
    LET asc == SortAsc({ x[2] : x \in { y \in shadow : y[1] = bucket } })
    IN /\ Len(asc) = Cardinality(PrimaryPks(store))
       /\ ret.items = ItemsOf(store, IF call.order = "Ascending" THEN asc ELSE Reverse(asc))
       /\ \A i \in 1..Len(ret.items) : ret.items[i].val # None

\* C13's case: an unbounded descending range over two stored pks and their markers.
C13_Witness ==
  /\ call.op = "range"
  /\ call.start = None
  /\ call.end = None
  /\ call.order = "Descending"
  /\ Len(ret.items) >= 2
  /\ IndexKeys(store) # {}
  /\ BytesLess(ret.items[2].pk, ret.items[1].pk)

\* C14: the primary and index sub-spaces of a namespace, and those of a
\* sibling bucket under another namespace (also one that is a byte-prefix of
\* the other), share no storage key: through each bucket every pk reads what
\* was last written through that bucket, and a scan of either of its
\* sub-spaces yields that bucket's keys of that sub-space only.
C14_SubspacesDisjoint ==
  LET mine == { x \in shadow : x[1] = bucket }
      idxscan == range_with_prefix(store, prefix_idx, None, None, "Ascending")
  IN /\ \A pk \in SiblingPKs \cup PKs :
          Held(store, pk) = { x[3] : x \in { y \in mine : y[2] = pk } }
     /\ range(store, None, None, "Ascending")
          = ItemsOf(store, SortAsc({ x[2] : x \in mine }))
     /\ { idxscan[i][1] : i \in 1..Len(idxscan) }
          = { to_length_prefixed(indexer(x[3])) \o x[2] : x \in mine }
     /\ Cardinality(store) = 2 * Cardinality(shadow)

\* C14's case: a save through the bucket of the longer namespace while the
\* bucket of the shorter one holds another value at the pk that starts with
\* the primary tag.
C14_Witness ==
  /\ call.op = "save"
  /\ bucket = Namespace0 \o TagPk
  /\ call.key = <<1>>
  /\ \E x \in shadow : x[1] = Namespace0 /\ x[2] = TagPk \o <<1>> /\ Some(x[3]) # call.data

\* The new value a call put at its key: the data of save and replace, the
\* action's output for update.
NewValue == IF call.op = "update" THEN ret.val ELSE call.data

\* The storage key of the marker of the new value at the call's key.
NewMarker == index_space(indexer(Unwrap(NewValue))) \o call.key

\* A successful save, replace or update that put a new value.
PutNew ==
  /\ call.op \in {"save", "replace", "update"}
  /\ ret.status = "Ok"
  /\ NewValue # None

\* The last two backing-store writes of the call: the marker of the new
\* value, then the primary entry.
MarkerThenPrimary ==
  LET n == Len(steps)
      before == IF n > 2 THEN steps[n - 2] ELSE prev
  IN /\ n >= 2
     /\ steps[n - 1] = storage_set(before, NewMarker, <<49>>)
     /\ steps[n] = storage_set(steps[n - 1], prefix_pk \o call.key, to_vec(Unwrap(NewValue)))
     /\ steps[n] = store

\* C16 as stated: in every save, replace with a new value, and update, the
\* marker of the new value is written before the primary entry, and in no
\* store state between two of the call's writes does pk hold the new value
\* while that marker is absent.
C16_NeverNewValueWithoutMarker ==
  PutNew =>
    /\ MarkerThenPrimary
    /\ \A i \in 1..(Len(steps) - 1) :
         ~(Held(steps[i], call.key) = NewValue /\ NewMarker \notin storage_keys(steps[i]))

\* C16 amended: the marker of the new value is written directly before the
\* primary entry; a store state between two of the call's writes in which pk
\* holds the new value while that marker is absent occurs only when pk held
\* that very value before the call, and is the state after the removal of
\* the old marker, before the marker is written again.
C16_MarkerWrittenBeforePrimary ==
  PutNew =>
    /\ MarkerThenPrimary
    /\ \A i \in 1..(Len(steps) - 1) :
         (Held(steps[i], call.key) = NewValue /\ NewMarker \notin storage_keys(steps[i]))
           => /\ Held(prev, call.key) = NewValue
              /\ i = 1
              /\ Len(steps) = 3
              /\ steps[1] = storage_remove(prev, NewMarker)

\* C16's case: a save or update that moves pk to another index key, in
\* three writes.
C16_Witness ==
  /\ PutNew
  /\ call.op \in {"save", "update"}
  /\ Len(steps) = 3
  /\ Held(prev, call.key) # None
  /\ indexer(Unwrap(Held(prev, call.key))) # indexer(Unwrap(NewValue))

\* The old value of a call that put a new one: the stored value for save and
\* update, the old_data given for replace.
OldValue == IF call.op = "replace" THEN call.old ELSE Held(prev, call.key)

\* C17: when the old and the new value have the same index key, save,
\* replace(pk, Some(new), Some(old)) and update end with the marker
\* (indexer(new), pk) in the store exactly once: the call removes the old
\* marker first and adds the new one after it.
C17_SharedMarkerSurvives ==
  (PutNew /\ OldValue # None /\ indexer(Unwrap(OldValue)) = indexer(Unwrap(NewValue))) =>
    /\ Cardinality({ p \in store : p[1] = NewMarker }) = 1
    /\ Len(steps) = 3
    /\ steps[1] = storage_remove(prev, NewMarker)
    /\ steps[2] = storage_set(steps[1], NewMarker, <<49>>)
    /\ NewMarker \in storage_keys(steps[3])

\* C17's case: an update of a stored value to its own index key, with
\* another pk stored under that index key too.
C17_Witness ==
  /\ PutNew
  /\ call.op = "update"
  /\ Held(prev, call.key) # None
  /\ indexer(Unwrap(Held(prev, call.key))) = indexer(Unwrap(NewValue))
  /\ Cardinality(PrimaryPks(store)) > 1
  /\ NewMarker \notin storage_keys(steps[1])

\* replace(pk, Some(new), old) did what C18 says of a stale old_data: it
\* returned Ok and the marker of the value pk held is still in the store,
\* next to the marker of the new value.
StaleMarkerLeft ==
  LET v == Unwrap(Held(prev, call.key))
  IN /\ ret.status = "Ok"
     /\ Held(store, call.key) = call.data
     /\ index_space(indexer(v)) \o call.key \in MarkerKeysOf(store, call.key)
     /\ NewMarker \in MarkerKeysOf(store, call.key)
     /\ NewMarker # index_space(indexer(v)) \o call.key
     /\ ~C1_OneMarkerPerStoredPk

\* C18 as stated: a direct replace(pk, Some(new), old) on a pk that holds v,
\* with indexer(new) # indexer(v) and old absent or of another index key
\* than v, returns Ok and leaves the stale marker (indexer(v), pk) next to
\* (indexer(new), pk); a state in which a stored pk does not have exactly
\* its one marker is reached only through such a call.
C18_OnlyStaleReplaceBreaksIndex ==
  /\ (call.op = "replace" /\ StaleOld(prev, call.key, call.data, call.old))
       => StaleMarkerLeft
  /\ ~C1_OneMarkerPerStoredPk => "stale" \in misused

\* C18 amended: such a call returns Ok and leaves the stale marker; a state
\* in which a stored pk does not have exactly its one marker is reached only
\* after a direct replace call whose old_data did not name what pk held,
\* whether or not that call put a new value; no call reports it.
C18_OnlyWrongOldBreaksIndex ==
  /\ (call.op = "replace" /\ StaleOld(prev, call.key, call.data, call.old))
       => StaleMarkerLeft
  /\ ~C1_OneMarkerPerStoredPk => "wrong" \in misused
  /\ ret.status = "Ok" \/ (call.op = "update" /\ ret.err = "ActionErr")

\* C18's case: a direct replace with an old_data of another index key than
\* the stored value's, putting a value of a third index key.
C18_Witness ==
  /\ call.op = "replace"
  /\ StaleOld(prev, call.key, call.data, call.old)
  /\ call.old # None
  /\ Cardinality(MarkerKeysOf(store, call.key)) = 2

\* C19: pks_by_index(idx) yields no pk whose stored value has an index key
\* other than idx, also for index keys that are byte-prefixes of one another,
\* for the empty idx, and for pks whose bytes look like part of an index key.
C19_IndexLookupIsolated ==
  (call.op = "pks_by_index" /\ ret.status = "Ok") =>
    \A i \in 1..Len(ret.pks) :
      Held(store, ret.pks[i]) # None
        => indexer(Unwrap(Held(store, ret.pks[i]))) = call.idx

\* The bytes at the primary key of the call's pk before the call did not parse.
MalformedBefore ==
  /\ get_with_prefix(prev, prefix_pk, call.key) # None
  /\ from_slice(Unwrap(get_with_prefix(prev, prefix_pk, call.key))).err # ""

\* C20: when the bytes stored at prefix_pk ++ pk do not deserialize, save,
\* remove and update of pk fail with the deserialization error of their
\* may_load, write nothing (the primary entry and every marker stay as they
\* are), and update does not call its action.
C20_MalformedEntryFailsCleanly ==
  (call.op \in {"save", "remove", "update"} /\ MalformedBefore) =>
    /\ ret.status = "Err"
    /\ ret.err = from_slice(Unwrap(get_with_prefix(prev, prefix_pk, call.key))).err
    /\ ret.err = "ParseErr"
    /\ steps = <<>>
    /\ store = prev
    /\ ~ret.invoked

\* C20's case: an update, with an action that would set a value, of a pk
\* whose bytes are malformed, in a store that holds another pk and its marker.
C20_Witness ==
  /\ call.op = "update"
  /\ call.action.kind = "set"
  /\ MalformedBefore
  /\ ret.err = "ParseErr"
  /\ IndexKeys(store) # {}

\* ------------------------------------------------ deps.rs: the handles
\*
\* deps.stack: the live handles, each made from the one below it (the first
\* from OwnedDeps), the last one being the handle of the innermost sub-call.
\* A handle names what it refers to by identity; lent tells that a live
\* handle borrows it.  deps.heap: the storages by identity.  deps.wrote:
\* <<key, value, depth>> for the value last set at each key and the depth of
\* the handle it was set through.  deps.last: the operation last made.

\* Nesting of sub-calls.
MaxDepth == 3

DepsKeys == { <<1>>, <<2>> }
DepsVals == { <<1>>, <<2>> }

\* OwnedDeps: the storage, api and querier it owns, by identity.
OwnedDeps == [storage |-> 1, api |-> "api", querier |-> "querier"]

\* OwnedDeps::as_ref
owned_as_ref ==
  [kind |-> "Deps", storage |-> OwnedDeps.storage, api |-> OwnedDeps.api,
   querier |-> OwnedDeps.querier, lent |-> FALSE]

\* OwnedDeps::as_mut
owned_as_mut ==
  [kind |-> "DepsMut", storage |-> OwnedDeps.storage, api |-> OwnedDeps.api,
   querier |-> OwnedDeps.querier, lent |-> FALSE]

\* DepsMut::as_ref
as_ref(self) ==
  [kind |-> "Deps", storage |-> self.storage, api |-> self.api,
   querier |-> self.querier, lent |-> FALSE]

\* branch that hands out a storage of its own instead of self's.
branch_elsewhere(self) ==
  [kind |-> "DepsMut", storage |-> self.storage + 1, api |-> self.api,
   querier |-> self.querier, lent |-> FALSE]

\* DepsMut::branch
branch(self) ==
  [kind |-> "DepsMut", storage |-> self.storage, api |-> self.api,
   querier |-> self.querier, lent |-> FALSE]

Bucket == <<store, bucket, prev, call, ret, steps, ndirect, misused, shadow>>

Top == deps.stack[Len(deps.stack)]

\* Push a handle made from the top one, which it borrows or (a copy) does not.
Push(h, borrows, op) ==
  LET n == Len(deps.stack)
      below == IF n > 0 /\ borrows THEN [deps.stack EXCEPT ![n].lent = TRUE]
               ELSE deps.stack
  IN deps' = [deps EXCEPT !.stack = below \o <<h>>, !.last = op]

\* let d = owned.as_mut()
AsMut ==
  /\ deps.stack = <<>>
  /\ Push(owned_as_mut, FALSE, "as_mut")
  /\ UNCHANGED Bucket

\* let d = owned.as_ref()
OwnedAsRef ==
  /\ deps.stack = <<>>
  /\ Push(owned_as_ref, FALSE, "as_ref")
  /\ UNCHANGED Bucket

\* execute2(deps.branch())
Branch ==
  /\ deps.stack # <<>>
  /\ Len(deps.stack) < MaxDepth
  /\ Top.kind = "DepsMut"
  /\ ~Top.lent
  /\ Push(branch(Top), TRUE, "branch")
  /\ UNCHANGED Bucket

\* query(deps.as_ref())
AsRef ==
  /\ deps.stack # <<>>
  /\ Len(deps.stack) < MaxDepth
  /\ Top.kind = "DepsMut"
  /\ ~Top.lent
  /\ Push(as_ref(Top), TRUE, "as_ref")
  /\ UNCHANGED Bucket

\* query2(deps): Deps is Copy, the sub-call gets a copy.
CopyDeps ==
  /\ deps.stack # <<>>
  /\ Len(deps.stack) < MaxDepth
  /\ Top.kind = "Deps"
  /\ Push(Top, FALSE, "copy")
  /\ UNCHANGED Bucket

\* The sub-call returns: its handle is dropped, the borrow it held ends.
Release ==
  /\ deps.stack # <<>>
  /\ LET n == Len(deps.stack)
         rest == SubSeq(deps.stack, 1, n - 1)
     IN deps' = [deps EXCEPT !.stack = IF n > 1 THEN [rest EXCEPT ![n - 1].lent = FALSE]
                                        ELSE rest,
                             !.last = "release"]
  /\ UNCHANGED Bucket

\* deps.storage.set(k, v) through the handle of the innermost sub-call.
Write(k, v) ==
  /\ deps.stack # <<>>
  /\ Top.kind = "DepsMut"
  /\ ~Top.lent
  /\ deps' = [deps EXCEPT !.heap[Top.storage] = storage_set(@, k, v),
                          !.wrote = { x \in @ : x[1] # k } \cup { <<k, v, Len(deps.stack)>> },
                          !.last = "set"]
  /\ UNCHANGED Bucket

NextDeps ==
  \/ AsMut
  \/ OwnedAsRef
  \/ Branch
  \/ AsRef
  \/ CopyDeps
  \/ Release
  \/ \E k \in DepsKeys, v \in DepsVals : Write(k, v)

\* Handles made from one OwnedDeps for nested sub-calls, and writes through them.
SpecDeps == Init /\ [][NextDeps]_vars

\* C15: every handle made by branch() or as_ref(), at any depth, refers to
\* the storage, api and querier of the original; the handle below a released
\* one is usable again (only handles under a live sub-call are lent); and
\* what was last set at a key through any handle is what every live handle
\* reads there.
C15_ReborrowedHandlesShareDeps ==
  LET n == Len(deps.stack)
  IN /\ \A i \in 1..n :
          /\ deps.stack[i].storage = OwnedDeps.storage
          /\ deps.stack[i].api = OwnedDeps.api
          /\ deps.stack[i].querier = OwnedDeps.querier
          /\ deps.stack[i].storage = deps.stack[1].storage
          /\ \A k \in DepsKeys :
               storage_get(deps.heap[deps.stack[i].storage], k)
                 = { x[2] : x \in { y \in deps.wrote : y[1] = k } }
     /\ n > 0 => ~deps.stack[n].lent
     /\ \A i \in 1..(n - 1) : deps.stack[i].lent <=> deps.stack[i].kind = "DepsMut"

\* C15's case: the sub-call of a branch has returned, and the original
\* DepsMut, usable again, reads what was set through the branch.
C15_Witness ==
  /\ deps.last = "release"
  /\ Len(deps.stack) = 1
  /\ deps.stack[1].kind = "DepsMut"
  /\ ~deps.stack[1].lent
  /\ \E x \in deps.wrote :
       x[3] > 1 /\ storage_get(deps.heap[deps.stack[1].storage], x[1]) = { x[2] }

====
